---------------------------- MODULE Spec2Model ----------------------------
(***************************************************************************)
(* Model of linuskmr/lunch-coordinator-bot.                                *)
(*                                                                         *)
(*   src/main.py                   the one-shot lunch poll sender          *)
(*   src/aalto_fuksi_bot/bot_main.py   the canteen bot: restaurant and     *)
(*                                 menu clients, inline keyboards, the     *)
(*                                 callback handlers and their router      *)
(*                                                                         *)
(* Python strings that the code cuts, joins or matches (callback data,     *)
(* dictionary keys, patterns) are sequences of one-character strings, so   *)
(* that prefix matching, removeprefix and split act on characters.         *)
(***************************************************************************)
EXTENDS Integers, Sequences, FiniteSets, TLC

VARIABLES
    \* ---- canteen bot (bot_main.py) ----
    _rest,          \* RestaurantManager._rest: the dict, in insertion order
    loads,          \* how each execution of _load_restaurants ended (capped)
    http,           \* API calls made by the handler that ran last
    msg,            \* the bot message the user is looking at
    lastToken,      \* callback data of the update processed last
    lastReg,        \* registration (index in Handlers) that took it, 0: none
    outcome,        \* what that handler did to the message
    parsed,         \* the navigation state that handler extracted
    \* ---- poll sender (main.py) ----
    pc,             \* position in the script
    today,          \* main.py:14
    tomorrow,       \* main.py:15
    question,       \* main.py:17
    options,        \* main.py:18
    send_poll_result,   \* main.py:20
    posts,          \* HTTP POSTs issued
    stdout,         \* what print() wrote
    exit_code       \* the process's exit status, -1 while running

botVars  == <<_rest, loads, http, msg, lastToken, lastReg, outcome, parsed>>
pollVars == <<pc, today, tomorrow, question, options, send_poll_result,
              posts, stdout, exit_code>>
vars     == <<botVars, pollVars>>

---------------------------------------------------------------------------
(* Bounds of the model.                                                    *)

\* longest restaurant list an /areas response carries
MaxRest == 3
\* executions of _load_restaurants after which no further load is explored
MaxLoads == 2
\* the poll sender is started on any day of FirstYear..LastYear
FirstYear == 2023
LastYear == 2025

---------------------------------------------------------------------------
(* Python str operations, on sequences of characters.                      *)

\* s.startswith(p); re.match("^" + p, s) for a pattern p of literal characters
StartsWith(s, p) ==
    /\ Len(s) >= Len(p)
    /\ SubSeq(s, 1, Len(p)) = p

\* s.removeprefix(p)
RemovePrefix(s, p) ==
    IF StartsWith(s, p) THEN SubSeq(s, Len(p) + 1, Len(s)) ELSE s

\* s.split(sep) for a one-character sep: always at least one part
RECURSIVE Split(_, _)
Split(s, sep) ==
    IF \A i \in 1..Len(s) : s[i] # sep
    THEN <<s>>
    ELSE LET k == CHOOSE i \in 1..Len(s) :
                      /\ s[i] = sep
                      /\ \A j \in 1..(i - 1) : s[j] # sep
         IN  <<SubSeq(s, 1, k - 1)>> \o Split(SubSeq(s, k + 1, Len(s)), sep)

\* the characters of one decimal digit
DigitChar(n) == <<"0", "1", "2", "3", "4", "5", "6", "7", "8", "9">>[n + 1]

\* str(n) for an int n >= 0: decimal, no padding
RECURSIVE Str(_)
Str(n) == IF n < 10 THEN <<DigitChar(n)>>
          ELSE Str(n \div 10) \o <<DigitChar(n % 10)>>

\* "%02d" and "%04d" of strftime / date.__str__
Pad2(n) == <<DigitChar((n \div 10) % 10), DigitChar(n % 10)>>
Pad4(n) == <<DigitChar((n \div 1000) % 10), DigitChar((n \div 100) % 10)>>
           \o Pad2(n % 100)

\* c.lower() and the replace(' ', '-') of canteens(), one character each
LowerChar(c) ==
    CASE c = "L" -> "l"
      [] c = "M" -> "m"
      [] c = "O" -> "o"
      [] c = "H" -> "h"
      [] c = "C" -> "c"
      [] OTHER   -> c
SpaceToHyphen(c) == IF c = " " THEN "-" ELSE c

---------------------------------------------------------------------------
(* datetime.date and timedelta, as CPython computes them: a date is        *)
(* converted to its proleptic Gregorian ordinal, the days are added, and   *)
(* the sum is converted back.                                              *)

is_leap(y) == y % 4 = 0 /\ (y % 100 # 0 \/ y % 400 = 0)

DAYS_IN_MONTH == <<31, 28, 31, 30, 31, 30, 31, 31, 30, 31, 30, 31>>

DAYS_BEFORE_MONTH == <<0, 31, 59, 90, 120, 151, 181, 212, 243, 273, 304, 334>>

days_in_month(y, m) ==
    IF m = 2 /\ is_leap(y) THEN 29 ELSE DAYS_IN_MONTH[m]

days_before_year(y) ==
    (y - 1) * 365 + ((y - 1) \div 4) - ((y - 1) \div 100) + ((y - 1) \div 400)

days_before_month(y, m) ==
    DAYS_BEFORE_MONTH[m] + (IF m > 2 /\ is_leap(y) THEN 1 ELSE 0)

\* date.toordinal()
ymd2ord(d) == days_before_year(d.year) + days_before_month(d.year, d.month) + d.day

\* date.fromordinal(n)
ord2ymd(ordinal) ==
    LET n0   == ordinal - 1
        n400 == n0 \div 146097
        r400 == n0 % 146097
        n100 == r400 \div 36524
        r100 == r400 % 36524
        n4   == r100 \div 1461
        r4   == r100 % 1461
        n1   == r4 \div 365
        n    == r4 % 365
        year == n400 * 400 + 1 + n100 * 100 + n4 * 4 + n1
    IN  IF n1 = 4 \/ n100 = 4
        THEN [year |-> year - 1, month |-> 12, day |-> 31]
        ELSE LET leapyear  == n1 = 3 /\ (n4 # 24 \/ n100 = 3)
                 leapAdd(m) == IF m > 2 /\ leapyear THEN 1 ELSE 0
                 month0    == (n + 50) \div 32
                 prec0     == DAYS_BEFORE_MONTH[month0] + leapAdd(month0)
                 month     == IF prec0 > n THEN month0 - 1 ELSE month0
                 preceding == IF prec0 > n
                              THEN prec0 - (DAYS_IN_MONTH[month]
                                     + (IF month = 2 /\ leapyear THEN 1 ELSE 0))
                              ELSE prec0
             IN  [year |-> year, month |-> month, day |-> n - preceding + 1]

\* a mutation of the addition: the day number is incremented in place
DatePlusDaysNoCarry(d, days) == [d EXCEPT !.day = d.day + days]

\* d + timedelta(days=days)
DatePlusDays(d, days) == ord2ymd(ymd2ord(d) + days)

\* str(d) of a datetime.date: ISO "YYYY-MM-DD"
IsoStr(d) == Pad4(d.year) \o <<"-">> \o Pad2(d.month) \o <<"-">> \o Pad2(d.day)

\* d.strftime("%A"): date.weekday() is (toordinal() + 6) % 7, Monday first
WeekdayName(d) ==
    <<"Monday", "Tuesday", "Wednesday", "Thursday", "Friday", "Saturday",
      "Sunday">>[((ymd2ord(d) + 6) % 7) + 1]

\* the calendar days of a range of years
DaysOfYears(lo, hi) ==
    { d \in [year : lo..hi, month : 1..12, day : 1..31] :
        d.day <= days_in_month(d.year, d.month) }

---------------------------------------------------------------------------
(* The poll sender, src/main.py.                                           *)

\* what api.telegram.org (or a gateway in front of it) can answer to the
\* POST: a status and a body that is a JSON document or is not
PollResponses == [status : {200, 400, 502}, json : BOOLEAN]

\* f"Lunch {tomorrow.strftime('%A (%d.%m.%Y)')}"
QuestionOf(d) ==
    <<"L", "u", "n", "c", "h", " ", WeekdayName(d), " ", "(">>
    \o Pad2(d.day) \o <<".">> \o Pad2(d.month) \o <<".">> \o Pad4(d.year)
    \o <<")">>

\* main.py:18
PollOptions == <<"11-12h", "12-13h", "13-14h", "14-15h", "later/other">>

NoDate == [year |-> 0, month |-> 0, day |-> 0]
NoResponse == [status |-> 0, json |-> FALSE]

PollInit ==
    /\ pc = "now"
    /\ today = NoDate
    /\ tomorrow = NoDate
    /\ question = <<>>
    /\ options = <<>>
    /\ send_poll_result = NoResponse
    /\ posts = 0
    /\ stdout = <<>>
    /\ exit_code = -1

\* main.py:14  today = datetime.now()
ReadClock ==
    /\ pc = "now"
    /\ today' \in DaysOfYears(FirstYear, LastYear)
    /\ pc' = "build"
    /\ UNCHANGED <<tomorrow, question, options, send_poll_result, posts,
                   stdout, exit_code>>
    /\ UNCHANGED botVars

\* main.py:15-18  tomorrow, question, options
BuildPoll ==
    /\ pc = "build"
    /\ tomorrow' = DatePlusDays(today, 1)
    /\ question' = QuestionOf(tomorrow')
    /\ options' = PollOptions
    /\ pc' = "post"
    /\ UNCHANGED <<today, send_poll_result, posts, stdout, exit_code>>
    /\ UNCHANGED botVars

\* main.py:20-27  requests.post(...) returns a response
PostPoll ==
    /\ pc = "post"
    /\ posts' = posts + 1
    /\ send_poll_result' \in PollResponses
    /\ pc' = "check"
    /\ UNCHANGED <<today, tomorrow, question, options, stdout, exit_code>>
    /\ UNCHANGED botVars

\* main.py:20  requests.post(...) raises (no connection, no response): the
\* exception is not caught and the interpreter exits with status 1
PostPollFails ==
    /\ pc = "post"
    /\ posts' = posts + 1
    /\ pc' = "done"
    /\ exit_code' = 1
    /\ UNCHANGED <<today, tomorrow, question, options, send_poll_result,
                   stdout>>
    /\ UNCHANGED botVars

\* main.py:28-31  the status check; response.json() raises on a body that
\* is not JSON, after the first print and before exit(1)
CheckPoll ==
    /\ pc = "check"
    /\ pc' = "done"
    /\ IF send_poll_result.status # 200
       THEN /\ stdout' = IF send_poll_result.json
                         THEN <<"Error sending poll", "body">>
                         ELSE <<"Error sending poll">>
            /\ exit_code' = 1
       ELSE /\ stdout' = stdout
            /\ exit_code' = 0
    /\ UNCHANGED <<today, tomorrow, question, options, send_poll_result,
                   posts>>
    /\ UNCHANGED botVars

---------------------------------------------------------------------------
(* Text constants of bot_main.py, as character sequences.                  *)

\* the patterns of main(), without their leading "^"
P_option == <<"o", "p", "t", "i", "o", "n">>
P_opening_hours == <<"o", "p", "e", "n", "i", "n", "g", "_", "h", "o", "u", "r", "s">>
P_menu_canteen == <<"m", "e", "n", "u", "_", "c", "a", "n", "t", "e", "e", "n">>
P_menu_date == <<"m", "e", "n", "u", "_", "d", "a", "t", "e">>
P_menu_canteen_back == <<"m", "e", "n", "u", "_", "c", "a", "n", "t", "e", "e", "n", "_", "b", "a", "c", "k">>
P_send == <<"s", "e", "n", "d">>
P_cancel == <<"c", "a", "n", "c", "e", "l">>

\* the prefixes the handlers remove and the buttons carry
S_option_ == <<"o", "p", "t", "i", "o", "n", "_">>
S_opening_hours_ == <<"o", "p", "e", "n", "i", "n", "g", "_", "h", "o", "u", "r", "s", "_">>
S_menu_canteen_ == <<"m", "e", "n", "u", "_", "c", "a", "n", "t", "e", "e", "n", "_">>
S_menu_date_ == <<"m", "e", "n", "u", "_", "d", "a", "t", "e", "_">>
S_send_ == <<"s", "e", "n", "d", "_">>
S_cancel_ == <<"c", "a", "n", "c", "e", "l", "_">>

\* the words the handlers compare with
S_link == <<"l", "i", "n", "k">>
S_menu == <<"m", "e", "n", "u">>
S_opening_hours == <<"o", "p", "e", "n", "i", "n", "g", "_", "h", "o", "u", "r", "s">>
S_opening_hyphen_hours == <<"o", "p", "e", "n", "i", "n", "g", "-", "h", "o", "u", "r", "s">>

\* options of canteens()
CanteenOptions == <<<<"L", "i", "n", "k">>,
                    <<"M", "e", "n", "u">>,
                    <<"O", "p", "e", "n", "i", "n", "g", " ", "H", "o", "u", "r", "s">>,
                    <<"C", "a", "n", "c", "e", "l">>>>

---------------------------------------------------------------------------
(* The canteen API as the bot sees it.                                     *)

SeqsUpTo(S, n) == UNION { [1..k -> S] : k \in 0..n }

\* the restaurants of the Otaniemi area, in the order the API lists them
\* (name and openingHours shortened)
RestaurantPool ==
    << [id |-> 1,  name |-> "Kvarkki", openingHours |-> <<"10:30 - 15:00", "closed">>],
       [id |-> 2,  name |-> "Taffa",   openingHours |-> <<"10:30 - 16:00">>],
       [id |-> 52, name |-> "A Bloc",  openingHours |-> <<>>],
       [id |-> 7,  name |-> "Dipoli",  openingHours |-> <<"11:00 - 14:00">>] >>

\* restaurant lists of an area: the first n of them, n <= MaxRest, and a
\* list that names one restaurant twice
RestaurantLists ==
    { SubSeq(RestaurantPool, 1, n) : n \in 0..MaxRest }
    \cup { <<RestaurantPool[1], RestaurantPool[2], RestaurantPool[1]>> }

\* bodies of GET /areas?lang=en:
\*   not_json   json.loads raises
\*   object     a JSON object (an error payload): its items are strings and
\*              area["name"] raises
\*   areas      a list of areas, with or without one named "Otaniemi"
AreaBodies ==
    { [kind |-> "not_json", otaniemi |-> FALSE, restaurants |-> <<>>],
      [kind |-> "object",   otaniemi |-> FALSE, restaurants |-> <<>>],
      [kind |-> "areas",    otaniemi |-> FALSE, restaurants |-> <<>>] }
    \cup
    { [kind |-> "areas", otaniemi |-> TRUE, restaurants |-> rs] :
        rs \in RestaurantLists }

AreaResponses == [status : {200, 500}, body : AreaBodies]

\* menu titles as served, with the blanks title.strip() removes
MenuItemLists == { <<>>, << <<" ", "S">>, <<"P", " ">> >> }

\* bodies of GET /menus?restaurants=<id>&days=<date>&lang=en:
\*   not_json             json.loads raises
\*   json, has_id FALSE   no entry for the requested restaurant: KeyError
\*   json, has_day FALSE  an entry without the requested day: .get(d, [])
MenuBodies ==
    { [kind |-> "not_json", has_id |-> FALSE, has_day |-> FALSE, items |-> <<>>],
      [kind |-> "json",     has_id |-> FALSE, has_day |-> FALSE, items |-> <<>>],
      [kind |-> "json",     has_id |-> TRUE,  has_day |-> FALSE, items |-> <<>>] }
    \cup
    { [kind |-> "json", has_id |-> TRUE, has_day |-> TRUE, items |-> its] :
        its \in MenuItemLists }

MenuResponses == [status : {200, 500}, body : MenuBodies]

\* a dict as the sequence of its (key, value) pairs in insertion order
DictKeys(dct) == { dct[i].key : i \in 1..Len(dct) }
DictGet(dct, k) == dct[CHOOSE i \in 1..Len(dct) : dct[i].key = k].value
DictValues(dct) == [i \in 1..Len(dct) |-> dct[i].value]
\* dct[k] = v: a new key is appended, a known key keeps its place
DictSet(dct, k, v) ==
    IF k \in DictKeys(dct)
    THEN [i \in 1..Len(dct) |->
             IF dct[i].key = k THEN [key |-> k, value |-> v] ELSE dct[i]]
    ELSE Append(dct, [key |-> k, value |-> v])

\* { str(rest["id"]): KanttiinitRestaurant(**rest) for rest in rs }
RECURSIVE RestaurantDict(_)
RestaurantDict(rs) ==
    IF rs = <<>> THEN <<>>
    ELSE LET r == rs[Len(rs)]
         IN  DictSet(RestaurantDict(SubSeq(rs, 1, Len(rs) - 1)), Str(r.id), r)

\* one HTTP request, as logged in http
HttpCall(api, resp, raised) ==
    [api |-> api, status |-> resp.status, json |-> resp.body.kind # "not_json",
     raised |-> raised]

\* KanttiinitRestaurantManager._load_restaurants, given the answer to its
\* one GET: it raises, or yields the value assigned to cls._rest
_load_restaurants(resp) ==
    IF resp.body.kind = "areas" /\ resp.body.otaniemi
    THEN [raised |-> FALSE, rest |-> RestaurantDict(resp.body.restaurants)]
    ELSE [raised |-> TRUE, rest |-> <<>>]

\* RestaurantManager.restaurants on the dict cur: whether it called the
\* loader, whether that raised, and the dict afterwards (which it returns)
restaurants(cur, resp) ==
    IF cur = <<>>
    THEN LET l == _load_restaurants(resp)
         IN  [called |-> TRUE, raised |-> l.raised,
              rest |-> IF l.raised THEN cur ELSE l.rest]
    ELSE [called |-> FALSE, raised |-> FALSE, rest |-> cur]

\* title.strip(), for blanks
RECURSIVE Strip(_)
Strip(s) ==
    IF s # <<>> /\ s[1] = " " THEN Strip(Tail(s))
    ELSE IF s # <<>> /\ s[Len(s)] = " " THEN Strip(SubSeq(s, 1, Len(s) - 1))
    ELSE s

\* KanttiinitMenuManager.get_restaurant_menu, given the answer to its one
\* GET: it raises, or yields the list of menu titles
get_restaurant_menu(restaurant_id, d, resp) ==
    IF resp.body.kind = "json" /\ resp.body.has_id
    THEN [raised |-> FALSE,
          menus |-> IF resp.body.has_day THEN resp.body.items ELSE <<>>]
    ELSE [raised |-> TRUE, menus |-> <<>>]

---------------------------------------------------------------------------
(* Messages and inline keyboards.  A message is the screen it shows (set   *)
(* by the function that wrote it), its text as a sequence of lines, and    *)
(* its keyboard: a sequence of rows of buttons.                            *)

Button(text, data) == [text |-> text, data |-> data]

NoMsg      == [screen |-> "none",    text |-> <<>>, keyboard |-> <<>>]
DeletedMsg == [screen |-> "deleted", text |-> <<>>, keyboard |-> <<>>]

\* the callback data of the buttons of a message
MsgButtons(m) ==
    UNION { { m.keyboard[i][j].data : j \in DOMAIN m.keyboard[i] } :
              i \in DOMAIN m.keyboard }

\* generate_cancel_send_buttons: one row, Cancel then Send
generate_cancel_send_buttons(callback_suffix) ==
    << Button("Cancel", S_cancel_ \o callback_suffix),
       Button("Send",   S_send_ \o callback_suffix) >>

\* a mutation of the canteen picker: the odd last restaurant is dropped
generate_canteen_buttons_pairs_only(callback_prefix, rest) ==
    [i \in 1..(Len(rest) \div 2) |->
        << Button(rest[2 * i - 1].name,
                  callback_prefix \o <<"_">> \o Str(rest[2 * i - 1].id)),
           Button(rest[2 * i].name,
                  callback_prefix \o <<"_">> \o Str(rest[2 * i].id)) >>]
    \o << << Button("Cancel", P_cancel) >> >>

\* generate_canteen_buttons, for rest = list(restaurants().values()):
\* zip(rest[::2], rest[1::2]) rows, the odd last one alone, then Cancel
generate_canteen_buttons(callback_prefix, rest) ==
    [i \in 1..(Len(rest) \div 2) |->
        << Button(rest[2 * i - 1].name,
                  callback_prefix \o <<"_">> \o Str(rest[2 * i - 1].id)),
           Button(rest[2 * i].name,
                  callback_prefix \o <<"_">> \o Str(rest[2 * i].id)) >>]
    \o (IF Len(rest) % 2 = 1
        THEN << << Button(rest[Len(rest)].name,
                          callback_prefix \o <<"_">> \o Str(rest[Len(rest)].id)) >> >>
        ELSE <<>>)
    \o << << Button("Cancel", P_cancel) >> >>

\* f"option_{o.replace(' ', '-').lower()}"
OptionData(o) ==
    S_option_ \o [i \in 1..Len(o) |-> LowerChar(SpaceToHyphen(o[i]))]

\* the reply of canteens(): one button per option, one per row
CanteensMsg ==
    [screen |-> "action",
     text |-> <<"Choose the action: ">>,
     keyboard |-> [i \in 1..Len(CanteenOptions) |->
                     << Button(CanteenOptions[i], OptionData(CanteenOptions[i])) >>]]

\* link_handler
LinkMsg ==
    [screen |-> "link",
     text |-> <<"https://kanttiinit.fi">>,
     keyboard |-> << generate_cancel_send_buttons(S_link) >>]

\* opening_hours_buttons
OpeningHoursPickerMsg(rest) ==
    [screen |-> "canteen_hours",
     text |-> <<"Opening Hours", "Choose the canteen:">>,
     keyboard |-> generate_canteen_buttons(P_opening_hours, DictValues(rest))]

\* a mutation of the menu's canteen picker: it carries the other prefix
MenuPickerMsgHoursPrefix(rest) ==
    [screen |-> "canteen_menu",
     text |-> <<"Menu", "Choose the canteen:">>,
     keyboard |-> generate_canteen_buttons(P_opening_hours, DictValues(rest))]

\* menu_canteen_handler
MenuPickerMsg(rest) ==
    [screen |-> "canteen_menu",
     text |-> <<"Menu", "Choose the canteen:">>,
     keyboard |-> generate_canteen_buttons(P_menu_canteen, DictValues(rest))]

\* a mutation of the date button: canteen first, date second
MenuDateDataSwapped(d, id) == S_menu_date_ \o id \o <<"|">> \o IsoStr(d)

\* f"menu_date_{str(d)}|{_id}"
MenuDateData(d, id) == S_menu_date_ \o IsoStr(d) \o <<"|">> \o id

\* d.strftime("%d.%m.%y (%a)"), the weekday left whole
DateLabel(d) ==
    Pad2(d.day) \o <<".">> \o Pad2(d.month) \o <<".">> \o Pad2(d.year % 100)
    \o <<" ", "(", WeekdayName(d), ")">>

\* the date picker of menu_date_pick_handler: seven days from today, Cancel
DatePickerMsg(id, day0) ==
    [screen |-> "date",
     text |-> <<"Menu date", "Choose the date:">>,
     keyboard |-> [i \in 1..7 |->
                     LET d == DatePlusDays(day0, i - 1)
                     IN  << Button(DateLabel(d), MenuDateData(d, id)) >>]
                  \o << << Button("Cancel", P_cancel) >> >>]

\* the message of opening_hours_handler: name, then one line per zipped day
OpeningHoursMsg(r) ==
    LET days == <<"Mon", "Tue", "Wed", "Thu", "Fri", "Sat", "Sun">>
    IN  [screen |-> "hours",
         text |-> <<r.name>> \o
                  [i \in 1..Len(r.openingHours) |-> <<days[i], r.openingHours[i]>>],
         keyboard |-> << generate_cancel_send_buttons(S_opening_hours) >>]

\* the message of menu_display_handler: _generate_message and the buttons
MenuMsg(r, date, menus) ==
    [screen |-> "menu",
     text |-> << <<r.name, date>> >> \o
              [i \in 1..Len(menus) |-> <<i, Strip(menus[i])>>],
     keyboard |-> << generate_cancel_send_buttons(S_menu) >>]

\* a mutation of send_handler's message: no fallback text, the text stays
SentMsgKeepsText(op, orig) ==
    [screen |-> "sent", text |-> orig, keyboard |-> <<>>]

\* the message send_handler writes: no reply_markup, so no keyboard; the
\* HTML tags it adds are markup, the lines of text stay
SentMsg(op, orig) ==
    [screen |-> "sent",
     text |-> IF op = S_opening_hours \/ op = S_menu THEN orig
              ELSE IF op = S_link THEN orig
              ELSE <<"Command not found">>,
     keyboard |-> <<>>]

---------------------------------------------------------------------------
(* The callback handlers.  Each is given the callback data and yields the *)
(* set of ways it can end, one for every answer the canteen API can give   *)
(* to the requests it makes and for every day date.today() can read.  A    *)
(* way to end is what the handler leaves behind: the restaurant dict, the  *)
(* loader executions and HTTP calls it made, the message, what it did to   *)
(* it, and the navigation state it read from the data.                     *)

Result(rest, loaderRuns, calls, m, what, nav) ==
    [rest |-> rest, loads |-> loads \o loaderRuns,
     http |-> calls, msg |-> m, outcome |-> what, parsed |-> nav]

\* the loader executions and the HTTP calls of one restaurants() access R
LoaderRuns(R) ==
    IF R.called THEN << IF R.raised THEN "raised" ELSE "loaded" >> ELSE <<>>
AreaCalls(R, ra) ==
    IF R.called THEN << HttpCall("areas", ra, R.raised) >> ELSE <<>>

\* what date.today() can read when a date picker is built: the pickers run
\* over the leap day and over the end of a year
BotTodays == { [year |-> 2024, month |-> 2, day |-> 26],
               [year |-> 2025, month |-> 12, day |-> 28] }

\* the answers GET /areas can get when restaurants() is called on the dict
\* cur: it is asked only if cur is empty
AreaAnswers(cur) ==
    IF cur = <<>> THEN AreaResponses ELSE { CHOOSE ra \in AreaResponses : TRUE }

\* a mutation of cancel_handler: it returns without deleting
cancel_handler_returns(data) ==
    { Result(_rest, <<>>, <<>>, msg, "returned", <<>>) }

\* cancel_handler
cancel_handler(data) ==
    { Result(_rest, <<>>, <<>>, DeletedMsg, "deleted", <<>>) }

\* send_handler
send_handler(data) ==
    IF data = <<>>
    THEN { Result(_rest, <<>>, <<>>, DeletedMsg, "deleted", <<>>) }
    ELSE LET op == RemovePrefix(data, S_send_)
         IN  { Result(_rest, <<>>, <<>>, SentMsg(op, msg.text), "edited", <<op>>) }

\* opening_hours_handler
opening_hours_handler(data) ==
    IF data = <<>>
    THEN { Result(_rest, <<>>, <<>>, DeletedMsg, "deleted", <<>>) }
    ELSE LET id == RemovePrefix(data, S_opening_hours_)
         IN  { LET R == restaurants(_rest, ra)
               IN  IF R.raised \/ id \notin DictKeys(R.rest)
                   THEN Result(R.rest, LoaderRuns(R), AreaCalls(R, ra), msg,
                               "raised", <<id>>)
                   ELSE Result(R.rest, LoaderRuns(R), AreaCalls(R, ra),
                               OpeningHoursMsg(DictGet(R.rest, id)), "edited",
                               <<id>>)
               : ra \in AreaAnswers(_rest) }

\* menu_date_pick_handler
menu_date_pick_handler(data) ==
    IF data = <<>>
    THEN { Result(_rest, <<>>, <<>>, DeletedMsg, "deleted", <<>>) }
    ELSE LET id == RemovePrefix(data, S_menu_canteen_)
         IN  { Result(_rest, <<>>, <<>>, DatePickerMsg(id, day0), "edited", <<id>>)
               : day0 \in BotTodays }

\* menu_display_handler from _generate_message on, for the date and the id
\* read from the data: restaurants()[_id], then get_restaurant_menu
menu_display_message(date, id) ==
    UNION {
      LET R == restaurants(_rest, ra)
      IN  IF R.raised \/ id \notin DictKeys(R.rest)
          THEN { Result(R.rest, LoaderRuns(R), AreaCalls(R, ra), msg, "raised",
                        <<date, id>>) }
          ELSE { LET M == get_restaurant_menu(id, date, rm)
                 IN  IF M.raised
                     THEN Result(R.rest, LoaderRuns(R),
                                 AreaCalls(R, ra) \o << HttpCall("menus", rm, TRUE) >>,
                                 msg, "raised", <<date, id>>)
                     ELSE Result(R.rest, LoaderRuns(R),
                                 AreaCalls(R, ra) \o << HttpCall("menus", rm, FALSE) >>,
                                 MenuMsg(DictGet(R.rest, id), date, M.menus),
                                 "edited", <<date, id>>)
                 : rm \in MenuResponses }
      : ra \in AreaAnswers(_rest) }

\* menu_display_handler
menu_display_handler(data) ==
    IF data = <<>>
    THEN { Result(_rest, <<>>, <<>>, DeletedMsg, "deleted", <<>>) }
    ELSE LET parts == Split(RemovePrefix(data, S_menu_date_), "|")
         IN  IF Len(parts) # 2
             THEN \* date, _id = ... : ValueError
                  { Result(_rest, <<>>, <<>>, msg, "raised", <<>>) }
             ELSE menu_display_message(parts[1], parts[2])

\* option_handler, with link_handler, menu_canteen_handler and
\* opening_hours_buttons
option_handler(data) ==
    IF data = <<>>
    THEN { Result(_rest, <<>>, <<>>, msg, "returned", <<>>) }
    ELSE LET command == RemovePrefix(data, S_option_)
         IN  IF command = S_link
             THEN { Result(_rest, <<>>, <<>>, LinkMsg, "edited", <<command>>) }
             ELSE IF command = S_menu \/ command = S_opening_hyphen_hours
             THEN { LET R == restaurants(_rest, ra)
                    IN  IF R.raised
                        THEN Result(R.rest, LoaderRuns(R), AreaCalls(R, ra), msg,
                                    "raised", <<command>>)
                        ELSE Result(R.rest, LoaderRuns(R), AreaCalls(R, ra),
                                    IF command = S_menu THEN MenuPickerMsg(R.rest)
                                    ELSE OpeningHoursPickerMsg(R.rest),
                                    "edited", <<command>>)
                    : ra \in AreaAnswers(_rest) }
             ELSE { Result(_rest, <<>>, <<>>, DeletedMsg, "deleted", <<command>>) }

---------------------------------------------------------------------------
(* The router: main() registers the callback handlers in one group, and    *)
(* the application gives an update to the first registered handler whose   *)
(* pattern matches the callback data (re.match), and to no other.          *)

Handlers ==
    << [pattern |-> P_option,            callback |-> "option_handler"],
       [pattern |-> P_opening_hours,     callback |-> "opening_hours_handler"],
       [pattern |-> P_menu_canteen,      callback |-> "menu_date_pick_handler"],
       [pattern |-> P_menu_date,         callback |-> "menu_display_handler"],
       [pattern |-> P_menu_canteen_back, callback |-> "option_handler"],
       [pattern |-> P_send,              callback |-> "send_handler"],
       [pattern |-> P_cancel,            callback |-> "cancel_handler"] >>

Matching(data) == { i \in DOMAIN Handlers : StartsWith(data, Handlers[i].pattern) }

\* a mutation of the router: the handler registered last wins
RouteLast(data) ==
    IF Matching(data) = {} THEN 0
    ELSE CHOOSE i \in Matching(data) : \A j \in Matching(data) : j <= i

\* the registration that handles data, 0 if none does
Route(data) ==
    IF Matching(data) = {} THEN 0
    ELSE CHOOSE i \in Matching(data) : \A j \in Matching(data) : i <= j

\* the handler of registration reg, run on data
RunHandler(reg, data) ==
    IF reg = 0
    THEN { Result(_rest, <<>>, <<>>, msg, "unhandled", <<>>) }
    ELSE LET cb == Handlers[reg].callback
         IN  CASE cb = "option_handler"         -> option_handler(data)
               [] cb = "opening_hours_handler"  -> opening_hours_handler(data)
               [] cb = "menu_date_pick_handler" -> menu_date_pick_handler(data)
               [] cb = "menu_display_handler"   -> menu_display_handler(data)
               [] cb = "send_handler"           -> send_handler(data)
               [] cb = "cancel_handler"         -> cancel_handler(data)

---------------------------------------------------------------------------
(* The bot as a state machine.                                             *)

\* callback data that reaches the bot without being on the current
\* keyboard: the data of every button the bot can produce, and data it
\* never produces
InjectTokens ==
    { P_cancel, S_cancel_ \o S_menu, P_cancel \o <<"x">>,
      <<"x">> \o P_cancel, <<"f", "o", "o">>,
      S_option_ \o S_link, S_option_ \o S_menu,
      S_option_ \o S_opening_hyphen_hours,
      S_option_ \o <<"f", "o", "o">>, P_option \o S_link,
      S_send_ \o S_link, S_send_ \o S_menu, S_send_ \o S_opening_hours,
      S_send_ \o <<"f", "o", "o">>, P_send \o S_link,
      P_menu_canteen_back,
      S_menu_date_ \o <<"x">>, S_menu_date_ \o <<"1", "|", "2", "|", "3">> }
    \cup { S_opening_hours_ \o k : k \in {<<"1">>, <<"9">>} }
    \cup { S_menu_canteen_ \o k : k \in {<<"1">>, <<"9">>} }
    \cup { MenuDateData([year |-> 2024, month |-> 2, day |-> 29], k) :
             k \in {<<"1">>, <<"9">>} }

BotInit ==
    /\ _rest = <<>>
    /\ loads = <<>>
    /\ http = <<>>
    /\ msg = NoMsg
    /\ lastToken = <<>>
    /\ lastReg = 0
    /\ outcome = "none"
    /\ parsed = <<>>

Init == BotInit /\ PollInit

\* the user sends /canteens: canteens() replies with a new message, the
\* action keyboard, and that reply is the message followed from then on
CmdCanteens ==
    /\ msg' = CanteensMsg
    /\ lastToken' = <<>>
    /\ lastReg' = 0
    /\ outcome' = "replied"
    /\ parsed' = <<>>
    /\ http' = <<>>
    /\ UNCHANGED <<_rest, loads>>
    /\ UNCHANGED pollVars

\* one callback query with the given data for the current message: routed,
\* and handled to the end by the handler it is routed to
Callback(data) ==
    /\ msg.screen \notin {"none", "deleted"}
    /\ \E H \in RunHandler(Route(data), data) :
              /\ Len(H.loads) <= MaxLoads
              /\ lastToken' = data
              /\ lastReg' = Route(data)
              /\ _rest' = H.rest
              /\ loads' = H.loads
              /\ http' = H.http
              /\ msg' = H.msg
              /\ outcome' = H.outcome
              /\ parsed' = H.parsed
    /\ UNCHANGED pollVars

\* the user presses a button of the current message
Click == \E data \in MsgButtons(msg) : Callback(data)

\* a callback query whose data is not on the current keyboard
Inject == \E data \in InjectTokens : Callback(data)

\* the bot, with any callback data
Next == CmdCanteens \/ Click \/ Inject

Spec == Init /\ [][Next]_vars

\* the bot, driven only through the buttons it produced itself
NextFlow == CmdCanteens \/ Click

SpecFlow == Init /\ [][NextFlow]_vars

\* the poll sender
NextPoll == ReadClock \/ BuildPoll \/ PostPoll \/ PostPollFails \/ CheckPoll

SpecPoll == Init /\ [][NextPoll]_vars

---------------------------------------------------------------------------
(* Properties.                                                             *)

\* a callback query has been processed and is the last thing that happened
Processed == outcome \notin {"none", "replied"}

\* the restaurant rows of a picker keyboard, end to end
RECURSIVE Flatten(_)
Flatten(rows) == IF rows = <<>> THEN <<>> ELSE rows[1] \o Flatten(Tail(rows))

\* the day after d by the calendar: next day of the month, else the first
\* of the next month, else the first of January
NextCalendarDay(d) ==
    IF d.day < days_in_month(d.year, d.month)
    THEN [d EXCEPT !.day = d.day + 1]
    ELSE IF d.month < 12
    THEN [year |-> d.year, month |-> d.month + 1, day |-> 1]
    ELSE [year |-> d.year + 1, month |-> 1, day |-> 1]

\* C1, as claimed: the loader is executed at most once per process, whatever
\* the canteen API answers.  Stated for the runs the claim singles out, the
\* ones in which every execution of the loader returned normally (an
\* Otaniemi area with zero restaurants included): those have one execution.
C1_LoadedAtMostOnce ==
    (\A i \in DOMAIN loads : loads[i] = "loaded") => Len(loads) <= 1

\* C2: callback data that starts with "cancel", whatever follows, is handled
\* by the registration of cancel_handler and by no other, and the message is
\* deleted, not edited.
C2_CancelDeletes ==
    (Processed /\ StartsWith(lastToken, P_cancel)) =>
        /\ lastReg = 7
        /\ Handlers[lastReg].callback = "cancel_handler"
        /\ outcome = "deleted"
        /\ msg = DeletedMsg

\* C2 witness: "cancel_menu", a cancel with a suffix, has been handled
C2_Witness ==
    /\ lastToken = S_cancel_ \o S_menu
    /\ lastReg = 7
    /\ msg = DeletedMsg

\* callback data the bot does not recognize, in the three forms of C3
UnknownOption(t) ==
    /\ StartsWith(t, S_option_)
    /\ RemovePrefix(t, S_option_) \notin {S_link, S_menu, S_opening_hyphen_hours}
UnknownSend(t) ==
    /\ StartsWith(t, S_send_)
    /\ RemovePrefix(t, S_send_) \notin {S_opening_hours, S_menu, S_link}
NoPattern(t) == \A i \in DOMAIN Handlers : ~StartsWith(t, Handlers[i].pattern)

\* C3, as claimed: every unrecognized callback token results in deletion of
\* the message, be it one that matches no pattern, an unknown "option_<x>"
\* or an unknown "send_<x>".
C3_UnrecognizedDeletes ==
    (Processed /\ (NoPattern(lastToken) \/ UnknownOption(lastToken)
                    \/ UnknownSend(lastToken))) =>
        /\ outcome = "deleted"
        /\ msg = DeletedMsg

\* C3, amended: an unknown "option_<x>" deletes the message; an unknown
\* "send_<x>" replaces the message by the text "Command not found" without
\* buttons; a token that matches no pattern reaches no handler and the
\* message is not deleted.
C3_UnrecognizedOutcome ==
    Processed =>
        /\ UnknownOption(lastToken) => (outcome = "deleted" /\ msg = DeletedMsg)
        /\ UnknownSend(lastToken) =>
              /\ outcome = "edited"
              /\ msg.text = <<"Command not found">>
              /\ msg.keyboard = <<>>
        /\ NoPattern(lastToken) =>
              /\ lastReg = 0
              /\ outcome = "unhandled"
              /\ msg # DeletedMsg

\* C3 witness: an unknown "send_<x>" has been answered with the fallback text
C3_Witness ==
    /\ UnknownSend(lastToken)
    /\ outcome = "edited"
    /\ msg.text = <<"Command not found">>

\* the message is a canteen picker; it was built from the dict _rest
IsPicker == msg.screen \in {"canteen_menu", "canteen_hours"}
PickerPrefix == IF msg.screen = "canteen_menu" THEN P_menu_canteen ELSE P_opening_hours
\* the buttons the restaurants of _rest should get, in list order
PickerButtons ==
    [i \in 1..Len(_rest) |->
        Button(_rest[i].value.name,
               PickerPrefix \o <<"_">> \o Str(_rest[i].value.id))]

\* C4, as claimed: for n restaurants the keyboard of generate_canteen_buttons
\* has a one-button row holding the last restaurant if n is odd and only
\* two-button rows if n is even, and every restaurant has exactly one
\* button, in list order, with data "<prefix>_<id>".
C4_EvenOnlyPairs ==
    IsPicker =>
        LET n  == Len(_rest)
            kb == msg.keyboard
        IN  /\ n % 2 = 1 => \E i \in DOMAIN kb : kb[i] = << PickerButtons[n] >>
            /\ n % 2 = 0 => \A i \in DOMAIN kb : Len(kb[i]) = 2
            /\ \A k \in 1..n :
                  Cardinality({ <<i, j>> \in (DOMAIN kb) \X (1..2) :
                                  j <= Len(kb[i]) /\ kb[i][j] = PickerButtons[k] }) = 1

\* C4, amended: the keyboard is the restaurant rows followed by one
\* one-button Cancel row; the restaurant rows are n div 2 two-button rows
\* and, if n is odd, a one-button row holding the last restaurant; read
\* row by row they are the restaurants in list order, one button each, with
\* data "<prefix>_<id>".
C4_CanteenRows ==
    IsPicker =>
        LET n    == Len(_rest)
            kb   == msg.keyboard
            rows == SubSeq(kb, 1, Len(kb) - 1)
        IN  /\ Len(kb) = ((n + 1) \div 2) + 1
            /\ kb[Len(kb)] = << Button("Cancel", P_cancel) >>
            /\ \A i \in 1..(n \div 2) : Len(rows[i]) = 2
            /\ n % 2 = 1 => rows[Len(rows)] = << PickerButtons[n] >>
            /\ n % 2 = 0 => \A i \in DOMAIN rows : Len(rows[i]) = 2
            /\ Flatten(rows) = PickerButtons

\* C4 witness: a picker for three restaurants, one pair and one single
C4_Witness ==
    /\ IsPicker
    /\ Len(_rest) = 3
    /\ Len(msg.keyboard) = 3

\* the order of the screens of a message: each change of screen is a step
\* forward or the deletion
LinearSteps ==
    { <<"action", "link">>, <<"action", "canteen_menu">>,
      <<"action", "canteen_hours">>,
      <<"canteen_menu", "date">>, <<"date", "menu">>,
      <<"canteen_hours", "hours">>,
      <<"link", "sent">>, <<"menu", "sent">>, <<"hours", "sent">> }
    \cup { <<scr, "deleted">> :
             scr \in {"action", "link", "canteen_menu", "canteen_hours", "date",
                      "menu", "hours"} }

\* C5: through the bot's own buttons the screens of a message (a reply to
\* /canteens starts a new one) are visited in the order action, canteen,
\* (date), content, sent: the menu is shown only from the date picker, the
\* date picker only from the menu's canteen picker, the opening hours only
\* from their canteen picker, and a "send_*" button is on content screens
\* only.
C5_LinearFlow ==
    /\ [][IF outcome' = "replied"
          THEN msg'.screen = "action"
          ELSE msg'.screen # msg.screen =>
                  <<msg.screen, msg'.screen>> \in LinearSteps]_vars
    /\ [](\A b \in MsgButtons(msg) :
             StartsWith(b, P_send) => msg.screen \in {"link", "menu", "hours"})

\* C5 witness: a menu has been sent, at the end of the longest path
C5_Witness ==
    /\ msg.screen = "sent"
    /\ lastToken = S_send_ \o S_menu
    /\ Len(parsed) = 1

\* C6, as claimed: every canteen API call that is answered with a non-2xx
\* status or with a body that is not JSON raises.
C6_FailedCallsRaise ==
    \A i \in DOMAIN http :
        (http[i].status \notin 200..299 \/ ~http[i].json) => http[i].raised

\* C7: whatever today is, tomorrow is the next calendar day, the question
\* is written with it, and the options are the five fixed strings in order.
C7_TomorrowAndOptions ==
    pc \notin {"now", "build"} =>
        /\ tomorrow = NextCalendarDay(today)
        /\ ymd2ord(tomorrow) = ymd2ord(today) + 1
        /\ question = QuestionOf(NextCalendarDay(today))
        /\ options = <<"11-12h", "12-13h", "13-14h", "14-15h", "later/other">>

\* C7 witness: the poll built on the last day of a leap year
C7_Witness ==
    /\ pc = "done"
    /\ today = [year |-> 2024, month |-> 12, day |-> 31]
    /\ tomorrow = [year |-> 2025, month |-> 1, day |-> 1]
    /\ question[7] = "Wednesday"

\* C8, as claimed: a run ends after exactly one POST, with status 1 and the
\* error body printed if the response status is not 200, with status 0 if
\* it is 200.
C8_OnePostThenExit ==
    pc = "done" =>
        /\ posts = 1
        /\ send_poll_result.status = 200 => exit_code = 0
        /\ (send_poll_result # NoResponse /\ send_poll_result.status # 200) =>
              /\ exit_code = 1
              /\ stdout = <<"Error sending poll", "body">>

\* the days a date picker can offer
OfferedDays(day0) == { DatePlusDays(day0, i) : i \in 0..6 }

\* C9: the navigation state survives the trip through the callback data.
\* From "menu_canteen_<id>" the date picker builds the seven buttons
\* "menu_date_<d>|<id>"; from such a button menu_display_handler reads
\* exactly (<d>, <id>) and shows that restaurant and date; from
\* "opening_hours_<id>" opening_hours_handler reads exactly <id> and shows
\* that restaurant.
C9_RoundTrip ==
    \A k \in DictKeys(_rest) :
        /\ (Processed /\ lastReg = 3 /\ lastToken = S_menu_canteen_ \o k) =>
              /\ parsed = <<k>>
              /\ \E day0 \in BotTodays :
                    [i \in 1..7 |-> msg.keyboard[i][1].data] =
                    [i \in 1..7 |->
                        S_menu_date_ \o IsoStr(DatePlusDays(day0, i - 1))
                          \o <<"|">> \o k]
        /\ \A day0 \in BotTodays : \A d \in OfferedDays(day0) :
              (Processed /\ lastReg = 4
                 /\ lastToken = S_menu_date_ \o IsoStr(d) \o <<"|">> \o k) =>
                  /\ parsed = <<IsoStr(d), k>>
                  /\ outcome = "edited" =>
                        msg.text[1] = <<DictGet(_rest, k).name, IsoStr(d)>>
        /\ (Processed /\ lastReg = 2 /\ lastToken = S_opening_hours_ \o k) =>
              /\ parsed = <<k>>
              /\ outcome = "edited" /\ msg.text[1] = DictGet(_rest, k).name

\* C9 witness: the menu of restaurant 52 for the leap day, reached through
\* the pickers
C9_Witness ==
    /\ lastReg = 4
    /\ outcome = "edited"
    /\ parsed = << <<"2", "0", "2", "4", "-", "0", "2", "-", "2", "9">>, <<"5", "2">> >>
    /\ msg.screen = "menu"

\* C10: an update goes to the first registration whose pattern matches and
\* to no other, so the registration of "^menu_canteen_back" never runs: what
\* it matches is taken by "^menu_canteen".  Every other registration is the
\* route of some callback data.
C10_FirstMatchOnly ==
    /\ Processed =>
          /\ lastReg # 5
          /\ StartsWith(lastToken, P_menu_canteen_back) => lastReg = 3
          /\ lastReg = 0 => NoPattern(lastToken)
          /\ lastReg # 0 =>
                /\ StartsWith(lastToken, Handlers[lastReg].pattern)
                /\ \A j \in 1..(lastReg - 1) :
                      ~StartsWith(lastToken, Handlers[j].pattern)
    /\ \A i \in (DOMAIN Handlers) \ {5} : \E t \in InjectTokens : Route(t) = i

\* C10 witness: "menu_canteen_back" has been handled, by the date picker
C10_Witness ==
    /\ lastToken = P_menu_canteen_back
    /\ lastReg = 3
    /\ msg.screen = "date"

====
